---- MODULE Spec2Model ----
(***************************************************************************)
(* A model of lib/response-class.js: the ExpressResponse class (a          *)
(* decorator of node's http.ServerResponse) and the sendfile() delivery    *)
(* session.                                                                *)
(*                                                                         *)
(* A response is one record, `res`.  Every method of the class is an       *)
(* operator from a response record to a response record.  A JavaScript     *)
(* exception is the field exc: once exc is set, the remaining statements   *)
(* of the method are skipped (Then), and what was written before the throw *)
(* stays written, as in the code.                                          *)
(***************************************************************************)
EXTENDS Integers, Sequences, FiniteSets, TLC

VARIABLES
    res,      \* the ExpressResponse: statusCode, headers, what was sent
    req,      \* the request collaborator (this.req) and app settings
    last,     \* the last method call: its name and its arguments
    sess,     \* the closure of one sendfile() call: done, streaming, timers
    cbLog,    \* the calls of sendfile's terminal callback, in order
    written,  \* every Set-Cookie value a call that returned has written
    renders   \* the callbacks app.render holds and has not called yet

vars == <<res, req, last, sess, cbLog, written, renders>>

(***************************************************************************)
(* Bounds of the model.                                                    *)
(***************************************************************************)
MaxEnds    == 2   \* calls of the end primitive that are recorded
MaxCookies == 3   \* Set-Cookie writes per response
MaxEvents  == 3   \* streamer events delivered to one session
MaxFinish  == 1   \* connection-finish signals delivered to one session
MaxCalls   == 1   \* calls of handlers and of next that are recorded

(***************************************************************************)
(* JavaScript values, as far as the methods tell them apart.               *)
(*   t : the kind, n : the number (or its integer part), s : the text      *)
(***************************************************************************)
JsInt(n)    == [t |-> "int",       n |-> n, s |-> ""]
JsFrac(n)   == [t |-> "frac",      n |-> n, s |-> ""]   \* n + 0.1
JsStr(s)    == [t |-> "string",    n |-> 0, s |-> s]
JsBool(b)   == [t |-> "boolean",   n |-> IF b THEN 1 ELSE 0, s |-> ""]
JsOther(k)  == [t |-> k,           n |-> 0, s |-> ""]
JsNaN       == JsOther("NaN")
JsInf       == JsOther("Infinity")
JsNegInf    == JsOther("-Infinity")
JsUndefined == JsOther("undefined")
JsNull      == JsOther("null")
JsObject    == JsOther("object")
JsArray     == JsOther("array")
JsFunction  == JsOther("function")

\* JavaScript falsiness of an argument: undefined, null, '', 0, NaN, false
Falsy(v) ==
    \/ v.t \in {"undefined", "null", "NaN"}
    \/ (v.t = "string" /\ v.s = "")
    \/ (v.t = "int" /\ v.n = 0)
    \/ (v.t = "boolean" /\ v.n = 0)

\* Number.isInteger(v): a number, finite, with no fractional part
NumberIsInteger(v) == v.t = "int"

(***************************************************************************)
(* The outgoing-message primitive: node's http.ServerResponse, which the   *)
(* class extends.                                                          *)
(***************************************************************************)
HeaderNames == {"Content-Type", "Content-Length", "Transfer-Encoding", "ETag",
                "Vary", "Set-Cookie", "Location", "X-Content-Type-Options",
                "Content-Disposition", "Link"}

Absent   == [k |-> "absent", v |-> <<>>]
HStr(s)  == [k |-> "str", v |-> <<s>>]
HArr(q)  == [k |-> "arr", v |-> q]
\* the value false, which setHeader stores as it is
HFalse   == [k |-> "nonstring", v |-> <<"boolean:false">>]

\* JavaScript truthiness of a header value: undefined and '' are falsy,
\* every array is truthy
Truthy(h) == h.k = "arr" \/ (h.k = "str" /\ h.v[1] # "")

\* getHeader(field)
getHeader(r, f) == r.hdr[f]

\* a throw: the method returns nothing
Throw(r, e) == [r EXCEPT !.exc = e, !.ret = "undefined"]

\* `return this`, reached when nothing was thrown
ReturnThis(r) == IF r.exc = "none" THEN [r EXCEPT !.ret = "this"] ELSE r

\* the rest of a method runs only when nothing was thrown so far
Then(r, F(_)) == IF r.exc # "none" THEN r ELSE F(r)

\* setHeader(field, value): refused once the header block was sent
setHeader(r, f, h) ==
    IF r.sent THEN Throw(r, "ERR_HTTP_HEADERS_SENT")
    ELSE [r EXCEPT !.hdr[f] = h]

\* removeHeader(field): refused once the header block was sent
removeHeader(r, f) ==
    IF r.sent THEN Throw(r, "ERR_HTTP_HEADERS_SENT")
    ELSE [r EXCEPT !.hdr[f] = Absent]

\* end() without a chunk
NoChunk == [t |-> "none", len |-> 0, bytes |-> 0]

\* end(chunk, encoding): every call is recorded, with the status and the
\* body headers of that moment; the first call sends the header block;
\* end returns the response
end(r, chunk, enc) ==
    [r EXCEPT !.sent = TRUE,
              !.ret  = "this",
              !.ends = Append(@, [chunk  |-> chunk,
                                  enc    |-> enc,
                                  status |-> r.statusCode,
                                  ctype  |-> r.hdr["Content-Type"],
                                  clen   |-> r.hdr["Content-Length"],
                                  te     |-> r.hdr["Transfer-Encoding"]])]

(***************************************************************************)
(* status(code)                                                            *)
(***************************************************************************)
\* status(code) with the range test off by one at the lower end
status_From99(r, code) ==
    IF ~NumberIsInteger(code) THEN Throw(r, "TypeError")
    ELSE IF code.n < 99 \/ code.n > 999 THEN Throw(r, "RangeError")
    ELSE [r EXCEPT !.statusCode = code.n, !.ret = "this"]

status(r, code) ==
    IF ~NumberIsInteger(code) THEN Throw(r, "TypeError")
    ELSE IF code.n < 100 \/ code.n > 999 THEN Throw(r, "RangeError")
    ELSE [r EXCEPT !.statusCode = code.n, !.ret = "this"]

(***************************************************************************)
(* set / header, get, append                                               *)
(***************************************************************************)
\* t.indexOf('/') === -1, for the types and extensions of the model
IsExtension(t) ==
    t \in {"html", "txt", "text", "json", "bin", "png", ".png", "zzz", ""}

\* mime.contentType(str) of the mime-types package, for the types and the
\* extensions of the model: an extension is looked up, and the result is
\* false for '' and for an extension no type is registered for; a type
\* that has a default charset and names none gets it
mimeContentType(v) ==
    CASE v \in {"html", "text/html", "text/html; charset=utf-8"}
             -> JsStr("text/html; charset=utf-8")
      [] v \in {"txt", "text", "text/plain", "text/plain; charset=utf-8"}
             -> JsStr("text/plain; charset=utf-8")
      [] v \in {"json", "application/json", "application/json; charset=utf-8"}
             -> JsStr("application/json; charset=utf-8")
      [] v \in {"text/javascript", "text/javascript; charset=utf-8"}
             -> JsStr("text/javascript; charset=utf-8")
      [] v \in {"bin", "application/octet-stream"}
             -> JsStr("application/octet-stream")
      [] v \in {"png", ".png", "image/png"}
             -> JsStr("image/png")
      [] IsExtension(v) -> JsBool(FALSE)
      [] OTHER -> JsStr(v)

\* header(field, val) with two arguments; val is a string or an array of
\* strings (String(val) and val.map(String) are applied by the caller of
\* this operator, who passes text). For Content-Type the result of
\* mime.contentType is stored, the value false included
header(r, f, h) ==
    IF f = "Content-Type"
    THEN IF h.k = "arr" THEN Throw(r, "TypeError")
         ELSE LET value == mimeContentType(h.v[1]) IN
              ReturnThis(setHeader(r, f, IF value.t = "string"
                                         THEN HStr(value.s) ELSE HFalse))
    ELSE ReturnThis(setHeader(r, f, h))

\* set(field, val)
set(r, f, h) == header(r, f, h)

\* get(field)
get(r, f) == getHeader(r, f)

\* append(field, val)
append(r, f, h) ==
    LET prev == get(r, f) IN
    IF Truthy(prev)
    THEN set(r, f, IF prev.k = "arr" THEN HArr(prev.v \o h.v)
                   ELSE HArr(<<prev.v[1]>> \o h.v))
    ELSE set(r, f, h)

(***************************************************************************)
(* type, send, json, jsonp, sendStatus                                     *)
(***************************************************************************)
\* a body: a string of len characters and bytes utf-8 bytes, a Buffer or a
\* Uint8Array of bytes bytes, or a value that is sent as JSON
StrBody(len, bytes) == [t |-> "string", len |-> len, bytes |-> bytes]
BufBody(bytes)      == [t |-> "buffer", len |-> bytes, bytes |-> bytes]
ViewBody(bytes)     == [t |-> "view", len |-> bytes, bytes |-> bytes]
ValBody(t)          == [t |-> t, len |-> 0, bytes |-> 0]
UndefinedBody       == ValBody("undefined")
EmptyString         == StrBody(0, 0)

\* type(t): mime.contentType(t) || 'application/octet-stream' for a t
\* without '/'
type(r, t) ==
    LET found == mimeContentType(t)
        ct == IF IsExtension(t)
              THEN (IF found.t = "string" THEN found.s
                    ELSE "application/octet-stream")
              ELSE t
    IN  set(r, "Content-Type", HStr(ct))

\* contentType(type)
contentType(r, t) == type(r, t)

\* path.extname(p), for the file names of the model
extname(p) ==
    CASE p = "a.png" -> ".png"
      [] p = "notes" -> ""

\* contentDisposition(filename) of the content-disposition package:
\* 'attachment' alone when filename is undefined, else the base name as the
\* filename parameter (the empty name is not a quoted-string and goes into
\* filename*)
contentDisposition(filename) ==
    CASE filename.t = "undefined"      -> "attachment"
      [] filename.s = "a.png"          -> "attachment; filename=\"a.png\""
      [] filename.s = "notes"          -> "attachment; filename=\"notes\""
      [] filename.s = "report.pdf"     -> "attachment; filename=\"report.pdf\""
      [] filename.s = "file.txt"       -> "attachment; filename=\"file.txt\""
      [] filename.s = "/srv/file.txt"  -> "attachment; filename=\"file.txt\""
      [] filename.s = "/srv/dir"       -> "attachment; filename=\"dir\""
      [] filename.s = ""               -> "attachment; filename*=UTF-8''"

\* attachment(filename): extname and contentDisposition throw a TypeError
\* when they get a value that is not a string
attachment(r0, filename) ==
    LET r1 == IF Falsy(filename) THEN r0
              ELSE IF filename.t # "string" THEN Throw(r0, "TypeError")
              ELSE type(r0, extname(filename.s))
        r2 == Then(r1, LAMBDA r :
                 IF filename.t \notin {"undefined", "string"}
                 THEN Throw(r, "TypeError")
                 ELSE set(r, "Content-Disposition",
                          HStr(contentDisposition(filename))))
    IN  ReturnThis(r2)

\* the text links(links) builds for the argument:
\*   "next":  { next: 'http://a/2' }
\*   "last2": { last: ['http://a/5', 'http://a/6'] }
linksText(links) ==
    CASE links = "next"  -> "<http://a/2>; rel=\"next\""
      [] links = "last2" -> "<http://a/5>; rel=\"last\", <http://a/6>; rel=\"last\""

\* links(links): the text is appended to the Link header, after ', ' when
\* the header has a value
links(r, l) ==
    LET prev == get(r, "Link")
        link == IF Truthy(prev) THEN prev.v[1] ELSE ""
        text == linksText(l)
        val  == CASE link = "" -> text
                  [] link = linksText("next") /\ l = "next" ->
                       "<http://a/2>; rel=\"next\", <http://a/2>; rel=\"next\""
                  [] link = linksText("next") /\ l = "last2" ->
                       "<http://a/2>; rel=\"next\", <http://a/5>; rel=\"last\", <http://a/6>; rel=\"last\""
                  [] link = linksText("last2") /\ l = "next" ->
                       "<http://a/5>; rel=\"last\", <http://a/6>; rel=\"last\", <http://a/2>; rel=\"next\""
                  [] link = linksText("last2") /\ l = "last2" ->
                       "<http://a/5>; rel=\"last\", <http://a/6>; rel=\"last\", <http://a/5>; rel=\"last\", <http://a/6>; rel=\"last\""
    IN  set(r, "Link", HStr(val))

\* setCharset(type, 'utf-8') of ./utils: the type with charset=utf-8
setCharset(t) ==
    CASE t = "image/png" -> "image/png; charset=utf-8"
      [] t = "application/octet-stream" -> "application/octet-stream; charset=utf-8"
      [] OTHER -> t

\* the last statements of send(body) without the `else`: a HEAD request
\* ends the response, and end(chunk, enc) runs as well
sendEnd_NoElse(r, q, chunk, enc) ==
    LET r1 == IF q.method = "HEAD" THEN end(r, NoChunk, "undefined") ELSE r
    IN  end(r1, chunk, enc)

\* the last statements of send(body): the HEAD shortcut
sendEnd(r, q, chunk, enc) ==
    IF q.method = "HEAD" THEN end(r, NoChunk, "undefined")
    ELSE end(r, chunk, enc)

\* the 204 / 304 block of send(body) that forgets Transfer-Encoding
sendBodyless_KeepsEncoding(r) ==
    Then(removeHeader(r, "Content-Type"),
         LAMBDA x : removeHeader(x, "Content-Length"))

\* the 204 / 304 block of send(body): the three removeHeader calls
sendBodyless(r) ==
    Then(Then(removeHeader(r, "Content-Type"),
         LAMBDA x : removeHeader(x, "Content-Length")),
         LAMBDA x : removeHeader(x, "Transfer-Encoding"))

\* the part of send(body) after `return this.json(chunk)`: body is a string,
\* null, undefined, a Buffer or another byte view
sendBody(r0, q, body) ==
    LET noType == ~Truthy(get(r0, "Content-Type"))
        \* switch (typeof chunk)
        chunk0 == IF body.t = "null" THEN EmptyString ELSE body
        r1 == IF body.t = "string" /\ noType THEN type(r0, "html")
              ELSE IF body.t \in {"buffer", "view"} /\ noType THEN type(r0, "bin")
              ELSE r0
        \* encode strings as utf-8
        isStr == chunk0.t = "string"
        r2 == Then(r1, LAMBDA r :
                 IF isStr /\ get(r, "Content-Type").k = "str"
                 THEN set(r, "Content-Type",
                          HStr(setCharset(get(r, "Content-Type").v[1])))
                 ELSE r)
        \* Content-Length and ETag
        genETag == ~Truthy(get(r2, "ETag")) /\ q.etag
        defined == chunk0.t # "undefined"
        toBuffer == /\ defined
                    /\ chunk0.t # "buffer"
                    /\ ~(~genETag /\ chunk0.len < 1000)
        chunk1 == IF toBuffer THEN BufBody(chunk0.bytes) ELSE chunk0
        enc == IF isStr /\ ~toBuffer THEN "utf8" ELSE "undefined"
        r3 == Then(r2, LAMBDA r :
                 IF defined
                 THEN set(r, "Content-Length", HStr(ToString(chunk1.bytes)))
                 ELSE r)
        r4 == Then(r3, LAMBDA r :
                 IF genETag /\ defined THEN set(r, "ETag", HStr("W/\"tag\""))
                 ELSE r)
        \* freshness, 304, 204, 205
        r5 == Then(r4, LAMBDA r :
                 IF q.fresh THEN status(r, JsInt(304)) ELSE r)
        bodyless == r5.statusCode = 204 \/ r5.statusCode = 304
        r6 == Then(r5, LAMBDA r :
                 IF bodyless THEN sendBodyless(r) ELSE r)
        reset == r6.statusCode = 205
        r7 == Then(r6, LAMBDA r :
                 IF reset
                 THEN Then(set(r, "Content-Length", HStr("0")),
                      LAMBDA x : removeHeader(x, "Transfer-Encoding"))
                 ELSE r)
        chunk2 == IF bodyless \/ reset THEN EmptyString ELSE chunk1
    IN  Then(r7, LAMBDA r : ReturnThis(sendEnd(r, q, chunk2, enc)))

\* stringify(value, replacer, spaces, escape) with the settings unset:
\* JSON.stringify(value), which is undefined for undefined
stringify(obj) ==
    CASE obj.t = "boolean"   -> StrBody(4, 4)     \* true
      [] obj.t = "number"    -> StrBody(1, 1)     \* 5
      [] obj.t = "object"    -> StrBody(9, 10)    \* {"a":"é"}
      [] obj.t = "null"      -> StrBody(4, 4)     \* null
      [] obj.t = "string"    -> StrBody(obj.len + 2, obj.bytes + 2)
      [] OTHER               -> UndefinedBody

\* json(obj)
json(r0, q, obj) ==
    LET body == stringify(obj)
        r1 == IF ~Truthy(get(r0, "Content-Type"))
              THEN set(r0, "Content-Type", HStr("application/json"))
              ELSE r0
    IN  Then(r1, LAMBDA r : sendBody(r, q, body))

\* send(body)
send(r, q, body) ==
    IF body.t \in {"boolean", "number", "object"}
    THEN json(r, q, body)
    ELSE sendBody(r, q, body)

\* the query value read as the JSONP callback name: raw characters and the
\* characters left by cb.replace(/[^\[\]\w$.]/g, '')
NoCb           == [t |-> "undefined", len |-> 0, kept |-> 0]
CbStr(len, k)  == [t |-> "string", len |-> len, kept |-> k]

\* jsonp(obj)
jsonp(r0, q, obj) ==
    LET body == stringify(obj)
        r1 == IF ~Truthy(get(r0, "Content-Type"))
              THEN Then(set(r0, "X-Content-Type-Options", HStr("nosniff")),
                   LAMBDA x : set(x, "Content-Type", HStr("application/json")))
              ELSE r0
        \* if (Array.isArray(cb)) cb = cb[0]
        named == q.cb.t \in {"string", "array"} /\ q.cb.len # 0
        r2 == Then(r1, LAMBDA r :
                 IF named
                 THEN Then(set(r, "X-Content-Type-Options", HStr("nosniff")),
                      LAMBDA x : set(x, "Content-Type", HStr("text/javascript")))
                 ELSE r)
        \* `/**/ typeof ${cb}==='function'&&${cb}(${body});`
        inner == IF body.t = "undefined" THEN EmptyString ELSE body
        wrapped == StrBody(30 + 2 * q.cb.kept + inner.len,
                           30 + 2 * q.cb.kept + inner.bytes)
    IN  Then(r2, LAMBDA r : sendBody(r, q, IF named THEN wrapped ELSE body))

\* statuses.message[code]: the length of the reason phrase the statuses
\* package lists for the code, 0 when it lists none
statusMessage(n) ==
    CASE n = 100 -> 8 [] n = 101 -> 19 [] n = 102 -> 10 [] n = 103 -> 11
      [] n = 200 -> 2 [] n = 201 -> 7 [] n = 202 -> 8 [] n = 203 -> 29
      [] n = 204 -> 10 [] n = 205 -> 13 [] n = 206 -> 15 [] n = 207 -> 12
      [] n = 208 -> 16 [] n = 226 -> 7 [] n = 300 -> 16 [] n = 301 -> 17
      [] n = 302 -> 5 [] n = 303 -> 9 [] n = 304 -> 12 [] n = 305 -> 9
      [] n = 307 -> 18 [] n = 308 -> 18 [] n = 400 -> 11 [] n = 401 -> 12
      [] n = 402 -> 16 [] n = 403 -> 9 [] n = 404 -> 9 [] n = 405 -> 18
      [] n = 406 -> 14 [] n = 407 -> 29 [] n = 408 -> 15 [] n = 409 -> 8
      [] n = 410 -> 4 [] n = 411 -> 15 [] n = 412 -> 19 [] n = 413 -> 17
      [] n = 414 -> 12 [] n = 415 -> 22 [] n = 416 -> 21 [] n = 417 -> 18
      [] n = 418 -> 12 [] n = 421 -> 19 [] n = 422 -> 20 [] n = 423 -> 6
      [] n = 424 -> 17 [] n = 425 -> 9 [] n = 426 -> 16 [] n = 428 -> 21
      [] n = 429 -> 17 [] n = 431 -> 31 [] n = 451 -> 29 [] n = 500 -> 21
      [] n = 501 -> 15 [] n = 502 -> 11 [] n = 503 -> 19 [] n = 504 -> 15
      [] n = 505 -> 26 [] n = 506 -> 23 [] n = 507 -> 20 [] n = 508 -> 13
      [] n = 509 -> 24 [] n = 510 -> 12 [] n = 511 -> 31
      [] OTHER -> 0

\* the length of String(n), for 0 <= n < 10000
digits(n) == IF n < 10 THEN 1 ELSE IF n < 100 THEN 2 ELSE IF n < 1000 THEN 3 ELSE 4

\* sendStatus(statusCode)
sendStatus(r0, q, code) ==
    LET n == IF statusMessage(code.n) # 0 THEN statusMessage(code.n)
             ELSE digits(code.n)
    IN  Then(Then(status(r0, code),
             LAMBDA r : type(r, "txt")),
             LAMBDA r : sendBody(r, q, StrBody(n, n)))

\* render(view, options, callback): done is the callback when one is
\* given (options when it is a function), else the default callback; render
\* hands done to app.render and returns nothing
render(r0) == [r0 EXCEPT !.ret = "undefined"]

\* done(err, str), called by app.render with an error or with the rendered
\* text (9 characters); the default callback is
\*   (err, str) => { if (err) return this.req.next(err); this.send(str) }
renderDone(r0, q, hasDone, err) ==
    LET r1 == IF hasDone
              THEN [r0 EXCEPT !.calls = Append(@, [fn |-> "done",
                        key |-> IF err THEN "error" ELSE "str",
                        types |-> <<>>])]
              ELSE IF err
              THEN [r0 EXCEPT !.calls = Append(@, [fn |-> "next",
                        key |-> "error", types |-> <<>>])]
              ELSE send(r0, q, StrBody(9, 9))
    IN  [r1 EXCEPT !.ret = "undefined"]

(***************************************************************************)
(* vary, format, location, redirect                                        *)
(***************************************************************************)
\* the fields a Vary header lists
varyFields(v) ==
    CASE v = "Accept"                  -> <<"Accept">>
      [] v = "Accept-Encoding"         -> <<"Accept-Encoding">>
      [] v = "Accept-Encoding, Accept" -> <<"Accept-Encoding", "Accept">>
      [] v = "Accept, Accept-Encoding" -> <<"Accept", "Accept-Encoding">>
      [] OTHER                         -> <<>>

Listed(v, field) == \E i \in 1..Len(varyFields(v)) : varyFields(v)[i] = field

\* vary(field): vary(this, field) of the vary package adds the field at
\* the end of the header unless the header lists it already; return this
vary(r, field) ==
    LET h == getHeader(r, "Vary")
        val == IF ~Truthy(h) THEN field
               ELSE IF Listed(h.v[1], field) THEN h.v[1]
               ELSE IF field = "Accept" THEN "Accept-Encoding, Accept"
               ELSE "Accept, Accept-Encoding"
    IN  ReturnThis(setHeader(r, "Vary", HStr(val)))

\* normalizeType(key).value of ./utils: a MIME type as it is, an extension
\* looked up
normalizeType(key) ==
    CASE key = "json" -> "application/json"
      [] key = "html" -> "text/html"
      [] key = "text" -> "text/plain"
      [] key = "png"  -> "image/png"
      [] OTHER -> key

Min(S) == CHOOSE x \in S : \A y \in S : x <= y

\* req.accepts(keys): the key the request prefers, "" for false.  The
\* request lists MIME types, or */*, all of weight 1: a type it names wins
\* over */*, an earlier name over a later one, and */* takes the first key.
accepts(q, keys) ==
    LET named == {j \in 1..Len(q.accept) :
                     /\ q.accept[j] # "*/*"
                     /\ \E i \in 1..Len(keys) : normalizeType(keys[i]) = q.accept[j]}
    IN  IF named # {}
        THEN keys[Min({i \in 1..Len(keys) :
                          normalizeType(keys[i]) = q.accept[Min(named)]})]
        ELSE IF \E j \in 1..Len(q.accept) : q.accept[j] = "*/*" THEN keys[1]
        ELSE ""

\* normalizeTypes(keys).map((o) => o.value)
normalizeTypes(keys) == [i \in 1..Len(keys) |-> normalizeType(keys[i])]

\* a handler of the table, the next handler: each call is recorded
Invoke(r, c) == [r EXCEPT !.calls = Append(@, c)]

\* format(obj) that looks for the default handler first
format_DefaultFirst(r0, q, obj) ==
    LET key == IF Len(obj.keys) > 0 THEN accepts(q, obj.keys) ELSE ""
        r1 == vary(r0, "Accept")
        r2 == Then(r1, LAMBDA r :
                 IF obj.hasDefault
                 THEN Invoke(r, [fn |-> "handler", key |-> "default",
                                 types |-> <<>>])
                 ELSE IF key # ""
                 THEN Then(set(r, "Content-Type", HStr(normalizeType(key))),
                      LAMBDA x : Invoke(x, [fn |-> "handler", key |-> key,
                                            types |-> <<>>]))
                 ELSE Invoke(r, [fn |-> "next", key |-> "406",
                                 types |-> normalizeTypes(obj.keys)]))
    IN  ReturnThis(r2)

\* format(obj): obj.keys are Object.keys(obj) without 'default'
format(r0, q, obj) ==
    LET key == IF Len(obj.keys) > 0 THEN accepts(q, obj.keys) ELSE ""
        r1 == vary(r0, "Accept")
        r2 == Then(r1, LAMBDA r :
                 IF key # ""
                 THEN Then(set(r, "Content-Type", HStr(normalizeType(key))),
                      LAMBDA x : Invoke(x, [fn |-> "handler", key |-> key,
                                            types |-> <<>>]))
                 ELSE IF obj.hasDefault
                 THEN Invoke(r, [fn |-> "handler", key |-> "default",
                                 types |-> <<>>])
                 ELSE Invoke(r, [fn |-> "next", key |-> "406",
                                 types |-> normalizeTypes(obj.keys)]))
    IN  ReturnThis(r2)

\* encodeUrl(url), and the lengths of the encoded and the HTML-escaped url
encodeUrl(url) ==
    CASE url = "/a b?x=1&y=2" -> "/a%20b?x=1&y=2"
      [] OTHER -> url

urlLength(u) ==
    CASE u = "/new" -> 4
      [] u = "/a%20b?x=1&y=2" -> 14

escapeHtmlLength(u) ==
    CASE u = "/new" -> 4
      [] u = "/a%20b?x=1&y=2" -> 18     \* & becomes &amp;

\* location(url)
location(r, url) == set(r, "Location", HStr(encodeUrl(url)))

\* redirect(url) and redirect(status, url); code is 302 when one argument
\* is given
redirect(r0, q, code, url) ==
    LET r1 == location(r0, url)
        address == get(r1, "Location").v[1]
        table == [keys |-> <<"text", "html">>, hasDefault |-> TRUE]
        r2 == Then(r1, LAMBDA r : format(r, q, table))
        key == accepts(q, table.keys)
        \* `${statuses.message[status]}`: 'undefined' when there is none
        msg == IF statusMessage(code.n) # 0 THEN statusMessage(code.n) ELSE 9
        n == CASE key = "text" -> msg + 17 + urlLength(address)
               [] key = "html" -> 3 + msg + 17 + escapeHtmlLength(address) + 4
               [] OTHER -> 0
        r3 == Then(Then(r2, LAMBDA r : status(r, code)),
                   LAMBDA r : set(r, "Content-Length", HStr(ToString(n))))
    IN  Then(r3, LAMBDA r :
            IF q.method = "HEAD" THEN end(r, NoChunk, "undefined")
            ELSE end(r, StrBody(n, n), "undefined"))

(***************************************************************************)
(* cookie, clearCookie                                                     *)
(***************************************************************************)
\* cookie options: signed, maxAge in ms (-1: not given), expires, path
\* ("": not given)
CookieOptions(signed, maxAge) ==
    [signed |-> signed, maxAge |-> maxAge, expires |-> "none", path |-> ""]

\* typeof value === 'object' ? 'j:' + JSON.stringify(value) : String(value)
cookieValue(value) == IF value.t = "object" THEN "j:{}" ELSE value.s

\* 's:' + sign(val, secret) of the cookie-signature package
signedValue(val) ==
    CASE val = "abc"  -> "s:abc.SIG"
      [] val = "j:{}" -> "s:j:{}.SIG"
      [] val = ""     -> "s:.SIG"

\* cookie.serialize(name, val, opts) of the cookie package
cookieSerialize(name, val, o) ==
    CASE <<name, val, o.maxAge, o.expires>> = <<"sid", "abc", -1, "none">>
             -> "sid=abc; Path=/"
      [] <<name, val, o.maxAge, o.expires>> = <<"sid", "abc", 1, "now+1500">>
             -> "sid=abc; Max-Age=1; Path=/; Expires=<now+1500ms>"
      [] <<name, val, o.maxAge, o.expires>> = <<"sid", "j:{}", -1, "none">>
             -> "sid=j%3A%7B%7D; Path=/"
      [] <<name, val, o.maxAge, o.expires>> = <<"sid", "j:{}", 1, "now+1500">>
             -> "sid=j%3A%7B%7D; Max-Age=1; Path=/; Expires=<now+1500ms>"
      [] <<name, val, o.maxAge, o.expires>> = <<"sid", "s:abc.SIG", -1, "none">>
             -> "sid=s%3Aabc.SIG; Path=/"
      [] <<name, val, o.maxAge, o.expires>> = <<"sid", "s:abc.SIG", 1, "now+1500">>
             -> "sid=s%3Aabc.SIG; Max-Age=1; Path=/; Expires=<now+1500ms>"
      [] <<name, val, o.maxAge, o.expires>> = <<"sid", "s:j:{}.SIG", -1, "none">>
             -> "sid=s%3Aj%3A%7B%7D.SIG; Path=/"
      [] <<name, val, o.maxAge, o.expires>> = <<"sid", "s:j:{}.SIG", 1, "now+1500">>
             -> "sid=s%3Aj%3A%7B%7D.SIG; Max-Age=1; Path=/; Expires=<now+1500ms>"
      [] <<name, val, o.maxAge, o.expires>> = <<"sid", "", -1, "epoch+1">>
             -> "sid=; Path=/; Expires=Thu, 01 Jan 1970 00:00:00 GMT"
      [] <<name, val, o.maxAge, o.expires>> = <<"sid", "s:.SIG", -1, "epoch+1">>
             -> "sid=s%3A.SIG; Path=/; Expires=Thu, 01 Jan 1970 00:00:00 GMT"
      [] <<name, val, o.maxAge, o.expires>> = <<"t", "abc", -1, "none">>
             -> "t=abc; Path=/"
      [] <<name, val, o.maxAge, o.expires>> = <<"t", "abc", 1, "now+1500">>
             -> "t=abc; Max-Age=1; Path=/; Expires=<now+1500ms>"
      [] <<name, val, o.maxAge, o.expires>> = <<"t", "j:{}", -1, "none">>
             -> "t=j%3A%7B%7D; Path=/"
      [] <<name, val, o.maxAge, o.expires>> = <<"t", "j:{}", 1, "now+1500">>
             -> "t=j%3A%7B%7D; Max-Age=1; Path=/; Expires=<now+1500ms>"
      [] <<name, val, o.maxAge, o.expires>> = <<"t", "s:abc.SIG", -1, "none">>
             -> "t=s%3Aabc.SIG; Path=/"
      [] <<name, val, o.maxAge, o.expires>> = <<"t", "s:abc.SIG", 1, "now+1500">>
             -> "t=s%3Aabc.SIG; Max-Age=1; Path=/; Expires=<now+1500ms>"
      [] <<name, val, o.maxAge, o.expires>> = <<"t", "s:j:{}.SIG", -1, "none">>
             -> "t=s%3Aj%3A%7B%7D.SIG; Path=/"
      [] <<name, val, o.maxAge, o.expires>> = <<"t", "s:j:{}.SIG", 1, "now+1500">>
             -> "t=s%3Aj%3A%7B%7D.SIG; Max-Age=1; Path=/; Expires=<now+1500ms>"
      [] <<name, val, o.maxAge, o.expires>> = <<"t", "", -1, "epoch+1">>
             -> "t=; Path=/; Expires=Thu, 01 Jan 1970 00:00:00 GMT"
      [] <<name, val, o.maxAge, o.expires>> = <<"t", "s:.SIG", -1, "epoch+1">>
             -> "t=s%3A.SIG; Path=/; Expires=Thu, 01 Jan 1970 00:00:00 GMT"

\* the Set-Cookie text cookie(name, value, options) builds
cookieText(name, value, options) ==
    LET v0 == cookieValue(value)
        val == IF options.signed THEN signedValue(v0) ELSE v0
        \* opts.expires = new Date(Date.now() + maxAge)
        \* opts.maxAge  = Math.floor(maxAge / 1000)
        o1 == IF options.maxAge # -1
              THEN [options EXCEPT !.expires = "now+1500",
                                   !.maxAge = options.maxAge \div 1000]
              ELSE options
        o2 == IF o1.path = "" THEN [o1 EXCEPT !.path = "/"] ELSE o1
    IN  cookieSerialize(name, val, o2)

\* cookie(name, value, options)
cookie(r, hasSecret, name, value, options) ==
    IF options.signed /\ ~hasSecret THEN Throw(r, "Error")
    ELSE ReturnThis(append(r, "Set-Cookie",
                           HStr(cookieText(name, value, options))))

\* the options clearCookie passes on:
\*   opts = { path: '/', ...options, expires: new Date(1) }; delete opts.maxAge
clearCookieOptions(options) ==
    LET o0 == IF options.path = "" THEN [options EXCEPT !.path = "/"] ELSE options
    IN  [o0 EXCEPT !.expires = "epoch+1", !.maxAge = -1]

\* clearCookie(name, options)
clearCookie(r, hasSecret, name, options) ==
    cookie(r, hasSecret, name, JsStr(""), clearCookieOptions(options))

(***************************************************************************)
(* sendFile(filePath, options, cb) and the delivery session sendfile().    *)
(***************************************************************************)
\* what the terminal callback is called with: an error or nothing
NoErr        == [err |-> FALSE, code |-> "", syscall |-> ""]
Err(c, sc)   == [err |-> TRUE, code |-> c, syscall |-> sc]

\* path.isAbsolute(p), for the paths of the model
pathIsAbsolute(p) == p \in {"/srv", "/srv/file.txt", "/srv/dir"}

\* path.resolve(p) of a string, in the working directory /srv
resolve(p) ==
    CASE p = ""         -> "/srv"
      [] p = "file.txt" -> "/srv/file.txt"
      [] OTHER          -> p

\* sendFileCallback without the ECONNABORTED / write-syscall exemption
sendFileCallback_ForwardAll(r, hasCb, e) ==
    IF hasCb THEN [r EXCEPT !.calls = Append(@, [fn |-> "done", arg |-> e])]
    ELSE IF e.err /\ e.code = "EISDIR"
         THEN [r EXCEPT !.calls = Append(@, [fn |-> "next", arg |-> NoErr])]
    ELSE IF e.err
         THEN [r EXCEPT !.calls = Append(@, [fn |-> "next", arg |-> e])]
    ELSE r

\* the callback sendFile hands to sendfile():
\*   (err) => { if (done) return done(err)
\*              if (err && err.code === 'EISDIR') return next()
\*              if (err && err.code !== 'ECONNABORTED' && err.syscall !== 'write') next(err) }
sendFileCallback(r, hasCb, e) ==
    IF hasCb THEN [r EXCEPT !.calls = Append(@, [fn |-> "done", arg |-> e])]
    ELSE IF e.err /\ e.code = "EISDIR"
         THEN [r EXCEPT !.calls = Append(@, [fn |-> "next", arg |-> NoErr])]
    ELSE IF e.err /\ e.code # "ECONNABORTED" /\ e.syscall # "write"
         THEN [r EXCEPT !.calls = Append(@, [fn |-> "next", arg |-> e])]
    ELSE r

\* the closure state of one sendfile() call, with the response and the log
\* of callback calls it acts on
callback(S, e) ==
    [S EXCEPT !.cbLog = Append(@, e),
              !.res   = sendFileCallback(S.res, S.sess.hasCb, e)]

onaborted(S) ==
    IF S.sess.done THEN S
    ELSE callback([S EXCEPT !.sess.done = TRUE], Err("ECONNABORTED", ""))

ondirectory(S) ==
    IF S.sess.done THEN S
    ELSE callback([S EXCEPT !.sess.done = TRUE], Err("EISDIR", ""))

onerror(S, e) ==
    IF S.sess.done THEN S
    ELSE callback([S EXCEPT !.sess.done = TRUE], e)

\* onend without the done guard
onend_Unguarded(S) == callback([S EXCEPT !.sess.done = TRUE], NoErr)

onend(S) ==
    IF S.sess.done THEN S
    ELSE callback([S EXCEPT !.sess.done = TRUE], NoErr)

\* the listener of 'headers', attached when options.headers is given:
\* every header of options.headers is set on the response
onheaders(S) ==
    [S EXCEPT !.res = setHeader(S.res, "Content-Disposition",
                                HStr(S.sess.headers))]

onfile(S)   == [S EXCEPT !.sess.streaming = "false"]
onstream(S) == [S EXCEPT !.sess.streaming = "true"]

\* onfinish that returns without scheduling the deferred check
onfinish_NoDefer(S, e) ==
    IF e.err /\ e.code = "ECONNRESET" THEN onaborted(S)
    ELSE IF e.err THEN onerror(S, e)
    ELSE S

\* onfinish(err): e = NoErr stands for a finish without an error
onfinish(S, e) ==
    IF e.err /\ e.code = "ECONNRESET" THEN onaborted(S)
    ELSE IF e.err THEN onerror(S, e)
    ELSE IF S.sess.done THEN S
    ELSE [S EXCEPT !.sess.pending = @ + 1]        \* setImmediate(...)

\* the deferred check testing `streaming === true` instead of `!== false`
onfinishDeferred_OnlyTrue(S) ==
    LET T == [S EXCEPT !.sess.pending = @ - 1] IN
    IF T.sess.streaming = "true" /\ ~T.sess.done THEN onaborted(T)
    ELSE IF ~T.sess.done THEN callback([T EXCEPT !.sess.done = TRUE], NoErr)
    ELSE T

\* the function onfinish hands to setImmediate
onfinishDeferred(S) ==
    LET T == [S EXCEPT !.sess.pending = @ - 1] IN
    IF T.sess.streaming # "false" /\ ~T.sess.done THEN onaborted(T)
    ELSE IF ~T.sess.done THEN callback([T EXCEPT !.sess.done = TRUE], NoErr)
    ELSE T

\* sendfile(res, file, options, callback): a new closure, listeners attached;
\* headers is the Content-Disposition of options.headers, "" when
\* options.headers is not given
sendfile(hasCb, headers) ==
    [active |-> TRUE, done |-> FALSE, streaming |-> "undefined",
     hasCb |-> hasCb, pending |-> 0, finishes |-> 0, events |-> 0,
     headers |-> headers]

\* sendFile(filePath, options, cb): the argument checks; TRUE when they pass
\*   options: "undefined", "plain" (an object without root), "root", "function"
sendFileAccepts(filePath, options) ==
    /\ ~Falsy(filePath)
    /\ filePath.t = "string"
    /\ (options = "root" \/ pathIsAbsolute(filePath.s))

\* done = cb, or options when options is a function
sendFileDone(options, cb) == IF options = "function" THEN TRUE ELSE cb

\* download(filePath, filename, options, callback): the arguments sorted out
\*   filename: "undefined", "name" (the string 'report.pdf'), "function",
\*             "plain" (an object without root), "root"
\*   options:  "undefined", "plain", "root", "function"
\* gives done (is there a callback), name and opts ("null" when none)
downloadArgs(filename, options, cb) ==
    LET a == IF filename = "function"
             THEN [done |-> TRUE, name |-> "null", opts |-> "null"]
             ELSE IF options = "function"
             THEN [done |-> TRUE, name |-> filename, opts |-> "null"]
             ELSE [done |-> cb, name |-> filename,
                   opts |-> IF options = "undefined" THEN "null" ELSE options]
    IN  IF filename \in {"plain", "root"} /\ options \in {"function", "undefined"}
        THEN [a EXCEPT !.name = "null", !.opts = filename]
        ELSE a

\* name || filePath, the argument of contentDisposition
downloadName(a, filePath) ==
    CASE a.name = "name"              -> JsStr("report.pdf")
      [] a.name \in {"plain", "root"} -> JsObject
      [] OTHER                        -> filePath

\* download: the session sendFile starts, or a throw. contentDisposition
\* and path.resolve throw a TypeError for a value that is not a string
\* (contentDisposition takes undefined); sendFile gets the resolved path,
\* or filePath itself when opts.root is set, and opts, always an object
download(filePath, filename, options, cb) ==
    LET a    == downloadArgs(filename, options, cb)
        name == downloadName(a, filePath)
        fullPath == IF a.opts = "root" \/ filePath.t # "string" THEN filePath
                    ELSE JsStr(resolve(filePath.s))
    IN  IF /\ name.t \in {"undefined", "string"}
           /\ (a.opts = "root" \/ filePath.t = "string")
           /\ sendFileAccepts(fullPath, IF a.opts = "root" THEN "root" ELSE "plain")
        THEN [throws |-> FALSE,
              sess |-> sendfile(a.done, contentDisposition(name))]
        ELSE [throws |-> TRUE, sess |-> sendfile(a.done, "")]

(***************************************************************************)
(* The state after construction: status 200, no header, nothing sent.      *)
(***************************************************************************)
NewRes ==
    [statusCode |-> 200,
     hdr        |-> [f \in HeaderNames |-> Absent],
     sent       |-> FALSE,
     ends       |-> <<>>,
     calls      |-> <<>>,
     exc        |-> "none",
     ret        |-> "undefined"]

\* entering a method: nothing thrown yet, nothing returned yet
Call(r) == [r EXCEPT !.exc = "none", !.ret = "undefined"]

PlainReq ==
    [fresh |-> FALSE, method |-> "GET", accept |-> <<"*/*">>,
     secret |-> FALSE, etag |-> FALSE, cb |-> JsUndefined]

NoSess ==
    [active |-> FALSE, done |-> FALSE, streaming |-> "undefined",
     hasCb |-> FALSE, pending |-> 0, finishes |-> 0, events |-> 0,
     headers |-> ""]

NoCall == [op |-> "none"]

(***************************************************************************)
(* Calls of status(code) with every kind of argument, and of the header    *)
(* helpers location and links.                                             *)
(***************************************************************************)
StatusArgs ==
    {JsInt(n) : n \in {-1, 0, 99, 100, 101, 200, 204, 304, 404, 999, 1000, 1001}}
    \cup {JsFrac(n) : n \in {99, 200, 1000}}
    \cup {JsStr(""), JsStr("200"), JsBool(TRUE), JsBool(FALSE), JsNaN, JsInf,
          JsNegInf, JsUndefined, JsNull, JsFunction, JsObject, JsArray}

CallStatus ==
    \E code \in StatusArgs :
        /\ res' = status(Call(res), code)
        /\ last' = [op |-> "status", code |-> code, before |-> res.statusCode]
        /\ UNCHANGED <<req, sess, cbLog, written, renders>>

\* the handler res.status(201).end('Created')
CallStatusEnd ==
    /\ Len(res.ends) < MaxEnds
    /\ res' = Then(status(Call(res), JsInt(201)),
                   LAMBDA r : end(r, StrBody(7, 7), "undefined"))
    /\ last' = [op |-> "status.end", code |-> JsInt(201),
                before |-> res.statusCode]
    /\ UNCHANGED <<req, sess, cbLog, written, renders>>

CallLocation ==
    \E url \in {"/new", "/a b?x=1&y=2"} :
        /\ res' = location(Call(res), url)
        /\ last' = [op |-> "location"]
        /\ UNCHANGED <<req, sess, cbLog, written, renders>>

\* links(links), as long as the Link header holds the text of at most one
\* earlier call
CallLinks ==
    \E l \in {"next", "last2"} :
        /\ get(res, "Link") \in {Absent, HStr(linksText("next")),
                                  HStr(linksText("last2"))}
        /\ res' = links(Call(res), l)
        /\ last' = [op |-> "links"]
        /\ UNCHANGED <<req, sess, cbLog, written, renders>>

InitStatus ==
    /\ res = NewRes
    /\ req = PlainReq
    /\ last = NoCall
    /\ sess = NoSess
    /\ cbLog = <<>>
    /\ written = <<>>
    /\ renders = <<>>

NextStatus ==
    \/ CallStatus
    \/ CallStatusEnd
    \/ CallLocation
    \/ CallLinks

SpecStatus == InitStatus /\ [][NextStatus]_vars

\* C2: status(code) stores an integer code of 100..999 and returns the
\* response itself; it throws a TypeError for every code that is not an
\* integer and a RangeError for every integer outside 100..999.
C2_StatusValidation ==
    last.op = "status" =>
        LET c == last.code IN
        /\ (c.t = "int" /\ 100 <= c.n /\ c.n <= 999) =>
               (res.exc = "none" /\ res.statusCode = c.n /\ res.ret = "this")
        /\ c.t # "int" => res.exc = "TypeError"
        /\ (c.t = "int" /\ (c.n < 100 \/ c.n > 999)) => res.exc = "RangeError"

\* status(999) has just succeeded on a response whose status was 100
C2_Witness ==
    /\ last.op = "status"
    /\ last.code = JsInt(999)
    /\ last.before = 100
    /\ res.statusCode = 999
    /\ res.exc = "none"

\* C3 as stated: every invalid status code, the out-of-range integers 99
\* and 1000 included, makes status(code) throw a TypeError.
C3_AllInvalidThrowTypeError ==
    (last.op = "status"
       /\ ~(last.code.t = "int" /\ 100 <= last.code.n /\ last.code.n <= 999))
    => res.exc = "TypeError"

(***************************************************************************)
(* One file delivery: a call of sendFile or download, then the streamer's  *)
(* events, the connection-finish signal and the deferred check, in any     *)
(* order.                                                                  *)
(***************************************************************************)
Paths == {JsUndefined, JsStr(""), JsInt(7), JsStr("file.txt"),
          JsStr("/srv/file.txt"), JsStr("/srv/dir")}

\* the errors a streamer or a connection reports
Errors == {Err(c, sc) : c \in {"EISDIR", "ECONNABORTED", "ECONNRESET", "ENOENT"},
                        sc \in {"", "write"}}

Session == [sess |-> sess, cbLog |-> cbLog, res |-> res]

\* the event of this step, and the closure state it met
Met(op, e) ==
    [op |-> op, err |-> e, wasDone |-> sess.done,
     streaming |-> sess.streaming, pending |-> sess.pending]

Becomes(S) ==
    /\ sess' = S.sess
    /\ cbLog' = S.cbLog
    /\ res' = S.res
    /\ UNCHANGED <<req, written, renders>>

Streamed(S) == Becomes([S EXCEPT !.sess.events = @ + 1])

CallSendFile ==
    \E filePath \in Paths, options \in {"undefined", "plain", "root", "function"},
       cb \in BOOLEAN :
        /\ ~sess.active
        /\ IF sendFileAccepts(filePath, options)
           THEN /\ sess' = sendfile(sendFileDone(options, cb), "")
                /\ res' = Call(res)
           ELSE /\ sess' = sess
                /\ res' = Throw(Call(res), "TypeError")
        /\ last' = [op |-> "sendFile", path |-> filePath, options |-> options,
                    cb |-> cb]
        /\ UNCHANGED <<req, cbLog, written, renders>>

CallDownload ==
    \E filePath \in Paths,
       filename \in {"undefined", "name", "function", "plain", "root"},
       options \in {"undefined", "plain", "root", "function"},
       cb \in BOOLEAN :
        LET d == download(filePath, filename, options, cb) IN
        /\ ~sess.active
        /\ IF d.throws
           THEN /\ sess' = sess
                /\ res' = Throw(Call(res), "TypeError")
           ELSE /\ sess' = d.sess
                /\ res' = Call(res)
        /\ last' = [op |-> "download", path |-> filePath, options |-> options,
                    cb |-> cb, filename |-> filename]
        /\ UNCHANGED <<req, cbLog, written, renders>>

CanStream == sess.active /\ sess.events < MaxEvents

\* the streamer announces the headers of the file
EvHeaders ==
    /\ CanStream
    /\ sess.headers # ""
    /\ Streamed(onheaders(Session))
    /\ last' = Met("headers", NoErr)

EvDirectory ==
    /\ CanStream
    /\ Streamed(ondirectory(Session))
    /\ last' = Met("directory", NoErr)

EvError ==
    \E e \in Errors :
        /\ CanStream
        /\ Streamed(onerror(Session, e))
        /\ last' = Met("error", e)

EvEnd ==
    /\ CanStream
    /\ Streamed(onend(Session))
    /\ last' = Met("end", NoErr)

EvFile ==
    /\ CanStream
    /\ Streamed(onfile(Session))
    /\ last' = Met("file", NoErr)

EvStream ==
    /\ CanStream
    /\ Streamed(onstream(Session))
    /\ last' = Met("stream", NoErr)

\* on-finished calls its listener when the connection finishes
EvFinish ==
    \E e \in Errors \cup {NoErr} :
        /\ sess.active
        /\ sess.finishes < MaxFinish
        /\ Becomes([onfinish(Session, e) EXCEPT !.sess.finishes = @ + 1])
        /\ last' = Met("finish", e)

\* the event loop runs a function given to setImmediate
RunDeferred ==
    /\ sess.pending > 0
    /\ Becomes(onfinishDeferred(Session))
    /\ last' = Met("deferred", NoErr)

InitFile ==
    /\ res = NewRes
    /\ req = PlainReq
    /\ last = NoCall
    /\ sess = NoSess
    /\ cbLog = <<>>
    /\ written = <<>>
    /\ renders = <<>>

NextFile ==
    \/ CallSendFile
    \/ CallDownload
    \/ EvHeaders
    \/ EvDirectory
    \/ EvError
    \/ EvEnd
    \/ EvFile
    \/ EvStream
    \/ EvFinish
    \/ RunDeferred

SpecFile == InitFile /\ [][NextFile]_vars

\* the event loop runs every function given to setImmediate
LiveFile == SpecFile /\ WF_vars(RunDeferred)

Aborted == Err("ECONNABORTED", "")

\* C1: in one delivery session the terminal callback is called at most
\* once, whatever events, finish signal and deferred check arrive, in
\* whatever order.
C1_CallbackAtMostOnce == Len(cbLog) <= 1

\* the callback was called, and after it streamer events, the finish signal
\* and the deferred check all arrived
C1_Witness ==
    /\ Len(cbLog) = 1
    /\ sess.events >= 3
    /\ sess.finishes = 1
    /\ last.op = "deferred"
    /\ last.wasDone

\* C7: without a callback, sendFile maps the outcome of the session to
\* next: EISDIR calls next(); otherwise ECONNABORTED or an error of the
\* write syscall calls nothing; success calls nothing; any other error
\* calls next(err).  With a callback, next is never called and the callback
\* gets the outcome.
C7_DefaultPolicy ==
    /\ cbLog = <<>> => res.calls = <<>>
    /\ Len(cbLog) = 1 =>
        LET e == cbLog[1] IN
        IF sess.hasCb THEN res.calls = <<[fn |-> "done", arg |-> e]>>
        ELSE IF e.err /\ e.code = "EISDIR"
             THEN res.calls = <<[fn |-> "next", arg |-> NoErr]>>
        ELSE IF e.err /\ (e.code = "ECONNABORTED" \/ e.syscall = "write")
             THEN res.calls = <<>>
        ELSE IF ~e.err THEN res.calls = <<>>
        ELSE res.calls = <<[fn |-> "next", arg |-> e]>>

\* a session without a callback ended on a directory: next() was called
C7_Witness ==
    /\ sess.active
    /\ ~sess.hasCb
    /\ last.op = "directory"
    /\ ~last.wasDone
    /\ cbLog = <<Err("EISDIR", "")>>
    /\ res.calls = <<[fn |-> "next", arg |-> NoErr]>>

\* C9: a finish signal that meets a session whose callback has not fired:
\* with ECONNRESET the callback gets ECONNABORTED; with another error the
\* callback gets that error; with no error a check is deferred and nothing
\* is called.  A deferred check that meets a session whose callback has not
\* fired calls it with ECONNABORTED, unless streaming is false: then with
\* success.
C9_FinishOutcome ==
    /\ (last.op = "finish" /\ ~last.wasDone) =>
          IF last.err.err /\ last.err.code = "ECONNRESET"
          THEN cbLog = <<Aborted>> /\ sess.pending = last.pending
          ELSE IF last.err.err
          THEN cbLog = <<last.err>> /\ sess.pending = last.pending
          ELSE cbLog = <<>> /\ ~sess.done /\ sess.pending = last.pending + 1
    /\ (last.op = "deferred" /\ ~last.wasDone) =>
          /\ sess.done
          /\ IF last.streaming = "false" THEN cbLog = <<NoErr>>
             ELSE cbLog = <<Aborted>>

\* the deferred check met a session that had seen no file and no stream
\* event, and reported an abort
C9_Witness ==
    /\ last.op = "deferred"
    /\ ~last.wasDone
    /\ last.streaming = "undefined"
    /\ cbLog = <<Aborted>>

\* C10: once the finish signal was delivered, and given that the event loop
\* runs the deferred check, the callback is eventually called; from then on
\* it has been called exactly once and done stays true.
C10_FinishLeadsToCallback ==
    (sess.finishes > 0) ~> [](sess.done /\ Len(cbLog) = 1)

\* the finish signal carried no error, and the deferred check made the call
C10_Witness ==
    /\ sess.finishes > 0
    /\ last.op = "deferred"
    /\ ~last.wasDone
    /\ sess.done
    /\ Len(cbLog) = 1

(***************************************************************************)
(* Set-Cookie: calls of append, cookie and clearCookie on one response,    *)
(* and the end of the response.                                            *)
(***************************************************************************)
\* the Set-Cookie values of a header value, in order
Values(h) == h.v

AppendArgs == {HStr(""), HStr("a=1"), HStr("b=2"), HArr(<<"c=3", "d=4">>)}

CookieNames == {"sid", "t"}

\* a call that returned has written the values ws
Wrote(ws) ==
    written' = IF res'.exc = "none" THEN written \o ws ELSE written

CallAppend ==
    \E h \in AppendArgs :
        /\ Len(written) < MaxCookies
        /\ res' = append(Call(res), "Set-Cookie", h)
        /\ Wrote(h.v)
        /\ last' = [op |-> "append", before |-> res.hdr["Set-Cookie"], val |-> h]
        /\ UNCHANGED <<req, sess, cbLog, renders>>

CallCookie ==
    \E name \in CookieNames, value \in {JsStr("abc"), JsObject},
       signed \in BOOLEAN, maxAge \in {-1, 1500} :
        /\ Len(written) < MaxCookies
        /\ res' = cookie(Call(res), req.secret, name, value,
                         CookieOptions(signed, maxAge))
        /\ Wrote(<<cookieText(name, value, CookieOptions(signed, maxAge))>>)
        /\ last' = [op |-> "cookie", before |-> res.hdr["Set-Cookie"],
                    signed |-> signed]
        /\ UNCHANGED <<req, sess, cbLog, renders>>

CallClearCookie ==
    \E name \in CookieNames, signed \in BOOLEAN, maxAge \in {-1, 1500} :
        /\ Len(written) < MaxCookies
        /\ res' = clearCookie(Call(res), req.secret, name,
                              CookieOptions(signed, maxAge))
        /\ Wrote(<<cookieText(name, JsStr(""),
                              clearCookieOptions(CookieOptions(signed, maxAge)))>>)
        /\ last' = [op |-> "clearCookie", before |-> res.hdr["Set-Cookie"],
                    signed |-> signed]
        /\ UNCHANGED <<req, sess, cbLog, renders>>

\* the handler ends the response with the inherited end(), without a chunk
CallEnd ==
    /\ Len(res.ends) < MaxEnds
    /\ res' = end(Call(res), NoChunk, "undefined")
    /\ last' = [op |-> "end"]
    /\ UNCHANGED <<req, sess, cbLog, written, renders>>

InitCookie ==
    /\ res = NewRes
    /\ req \in {[PlainReq EXCEPT !.secret = b] : b \in BOOLEAN}
    /\ last = NoCall
    /\ sess = NoSess
    /\ cbLog = <<>>
    /\ written = <<>>
    /\ renders = <<>>

NextCookie ==
    \/ CallAppend
    \/ CallCookie
    \/ CallClearCookie
    \/ CallEnd

SpecCookie == InitCookie /\ [][NextCookie]_vars

\* C8 as stated: after any sequence of append('Set-Cookie', v), cookie and
\* clearCookie calls that returned, the Set-Cookie header holds exactly the
\* values they wrote, in call order: no call replaces or removes an earlier
\* value.
C8_NeverOverwrites == Values(res.hdr["Set-Cookie"]) = written

(***************************************************************************)
(* Content negotiation: calls of format, vary, type and attachment on one  *)
(* response, and the end of the response.                                  *)
(***************************************************************************)
Tables ==
    {[keys |-> k, hasDefault |-> d] :
        k \in {<<>>, <<"json">>, <<"html", "json">>, <<"json", "html">>,
               <<"text/plain">>, <<"text", "png">>},
        d \in BOOLEAN}

AcceptHeaders ==
    {<<"*/*">>, <<"text/html">>, <<"application/json">>, <<"image/gif">>,
     <<"text/plain", "text/html">>, <<"*/*", "application/json">>}

\* the request accepts the key: it names the key's type, or */*
Acceptable(q, key) ==
    \E j \in 1..Len(q.accept) : q.accept[j] \in {"*/*", normalizeType(key)}

\* the MIME type of a Content-Type value, without its parameters
MediaType(v) ==
    CHOOSE t \in {"text/html", "text/plain", "application/json", "image/png",
                  "text/javascript", "application/octet-stream"} :
        v \in {t, mimeContentType(t).s, setCharset(t)}

CallFormat ==
    \E obj \in Tables :
        /\ Len(res.calls) < MaxCalls
        /\ res' = format(Call(res), req, obj)
        /\ last' = [op |-> "format", obj |-> obj,
                    before |-> [sent  |-> res.sent,
                                calls |-> Len(res.calls),
                                ctype |-> res.hdr["Content-Type"],
                                vary  |-> res.hdr["Vary"]]]
        /\ UNCHANGED <<req, sess, cbLog, written, renders>>

CallVary ==
    /\ res' = vary(Call(res), "Accept-Encoding")
    /\ last' = [op |-> "vary"]
    /\ UNCHANGED <<req, sess, cbLog, written, renders>>

\* type(t) and contentType(t), with an extension, an unknown extension
\* and a full type
CallType ==
    \E t \in {"html", "zzz", "image/png"}, alias \in BOOLEAN :
        /\ res' = IF alias THEN contentType(Call(res), t) ELSE type(Call(res), t)
        /\ last' = [op |-> "type"]
        /\ UNCHANGED <<req, sess, cbLog, written, renders>>

CallAttachment ==
    \E filename \in {JsUndefined, JsNull, JsInt(7), JsStr("a.png"),
                      JsStr("notes")} :
        /\ res' = attachment(Call(res), filename)
        /\ last' = [op |-> "attachment"]
        /\ UNCHANGED <<req, sess, cbLog, written, renders>>

InitFormat ==
    /\ res = NewRes
    /\ req \in {[PlainReq EXCEPT !.accept = a] : a \in AcceptHeaders}
    /\ last = NoCall
    /\ sess = NoSess
    /\ cbLog = <<>>
    /\ written = <<>>
    /\ renders = <<>>

NextFormat ==
    \/ CallFormat
    \/ CallVary
    \/ CallType
    \/ CallAttachment
    \/ CallEnd

SpecFormat == InitFormat /\ [][NextFormat]_vars

Range(q) == {q[i] : i \in 1..Len(q)}

\* C5: format(obj), called before the header block is sent, does not
\* throw, lists Accept in Vary, and does exactly one of three things: when
\* the request accepts a key of the table other than default, it sets
\* Content-Type to the type of such a key and calls that key's handler;
\* otherwise it calls the default handler when there is one; otherwise it
\* calls next with a 406 error that carries the types of all keys.
C5_FormatOutcome ==
    (last.op = "format" /\ ~last.before.sent) =>
        LET obj == last.obj
            ok  == {k \in Range(obj.keys) : Acceptable(req, k)}
            new == SubSeq(res.calls, last.before.calls + 1, Len(res.calls))
        IN  /\ res.exc = "none"
            /\ Truthy(res.hdr["Vary"])
            /\ Listed(res.hdr["Vary"].v[1], "Accept")
            /\ Len(new) = 1
            /\ IF ok # {}
               THEN /\ new[1].fn = "handler"
                    /\ new[1].key \in ok
                    /\ Truthy(res.hdr["Content-Type"])
                    /\ MediaType(res.hdr["Content-Type"].v[1])
                          = normalizeType(new[1].key)
               ELSE /\ res.hdr["Content-Type"] = last.before.ctype
                    /\ IF obj.hasDefault
                       THEN new[1] = [fn |-> "handler", key |-> "default",
                                      types |-> <<>>]
                       ELSE new[1] = [fn |-> "next", key |-> "406",
                                      types |-> [i \in 1..Len(obj.keys) |->
                                                   normalizeType(obj.keys[i])]]

\* format found no acceptable key and no default, and called next with 406
C5_Witness ==
    /\ last.op = "format"
    /\ ~last.before.sent
    /\ last.obj = [keys |-> <<"html", "json">>, hasDefault |-> FALSE]
    /\ req.accept = <<"image/gif">>
    /\ last.before.vary = HStr("Accept-Encoding")
    /\ res.hdr["Vary"] = HStr("Accept-Encoding, Accept")
    /\ res.calls[Len(res.calls)] =
          [fn |-> "next", key |-> "406",
           types |-> <<"text/html", "application/json">>]

(***************************************************************************)
(* Output: calls of status, set, send, json, jsonp, sendStatus and         *)
(* redirect on one response, in any order and number; and calls of render. *)
(***************************************************************************)
Bodies ==
    {StrBody(2, 3), StrBody(1000, 1000), BufBody(3), ViewBody(4),
     UndefinedBody, ValBody("null"), ValBody("object")}

\* a request that accepts HTML and names a JSONP callback (4 characters, 2
\* of them legal) in an app with an ETag function, or a request that
\* accepts neither text nor HTML and names no callback in an app without
Requests ==
    {[fresh |-> f, method |-> m, accept |-> x[1], secret |-> FALSE,
      etag |-> x[3], cb |-> x[2]] :
        f \in BOOLEAN, m \in {"GET", "HEAD"},
        x \in {<<(<<"text/html">>), CbStr(4, 2), TRUE>>,
               <<(<<"image/gif">>), NoCb, FALSE>>}}

CanEnd == Len(res.ends) < MaxEnds

\* the call of this step, and what the response was when it was made
Did(op, arg) ==
    last' = [op |-> op, arg |-> arg,
             before |-> [statusCode |-> res.statusCode, sent |-> res.sent,
                         ends |-> Len(res.ends),
                         te |-> res.hdr["Transfer-Encoding"]]]

OutputOps == {"send", "json", "jsonp", "sendStatus", "redirect"}

\* status(code) as a handler calls it before sending
CallSetStatus ==
    \E n \in {204, 205, 404} :
        /\ ~res.sent
        /\ res' = status(Call(res), JsInt(n))
        /\ Did("status", JsInt(n))
        /\ UNCHANGED <<req, sess, cbLog, written, renders>>

\* set(field, value) as a handler calls it before sending
CallSet ==
    \E fv \in {<<"Transfer-Encoding", "chunked">>, <<"Content-Type", "png">>,
               <<"Content-Type", "zzz">>} :
        /\ ~res.sent
        /\ res' = set(Call(res), fv[1], HStr(fv[2]))
        /\ Did("set", fv)
        /\ UNCHANGED <<req, sess, cbLog, written, renders>>

CallSend ==
    \E body \in Bodies :
        /\ CanEnd
        /\ res' = send(Call(res), req, body)
        /\ Did("send", body)
        /\ UNCHANGED <<req, sess, cbLog, written, renders>>

CallJson ==
    \E obj \in {ValBody("null"), UndefinedBody} :
        /\ CanEnd
        /\ res' = json(Call(res), req, obj)
        /\ Did("json", obj)
        /\ UNCHANGED <<req, sess, cbLog, written, renders>>

CallJsonp ==
    \E obj \in {ValBody("object"), UndefinedBody} :
        /\ CanEnd
        /\ res' = jsonp(Call(res), req, obj)
        /\ Did("jsonp", obj)
        /\ UNCHANGED <<req, sess, cbLog, written, renders>>

CallSendStatus ==
    \E code \in {JsInt(304), JsInt(99), JsStr("200")} :
        /\ CanEnd
        /\ res' = sendStatus(Call(res), req, code)
        /\ Did("sendStatus", code)
        /\ UNCHANGED <<req, sess, cbLog, written, renders>>

CallRedirect ==
    \E code \in {JsInt(302), JsInt(99)}, url \in {"/a b?x=1&y=2"} :
        /\ CanEnd
        /\ Len(res.calls) < MaxCalls
        /\ res' = redirect(Call(res), req, code, url)
        /\ Did("redirect", <<code, url>>)
        /\ UNCHANGED <<req, sess, cbLog, written, renders>>

InitSend ==
    /\ res = NewRes
    /\ req \in Requests
    /\ last = NoCall
    /\ sess = NoSess
    /\ cbLog = <<>>
    /\ written = <<>>
    /\ renders = <<>>

NextSend ==
    \/ CallSetStatus
    \/ CallSet
    \/ CallSend
    \/ CallJson
    \/ CallJsonp
    \/ CallSendStatus
    \/ CallRedirect

SpecSend == InitSend /\ [][NextSend]_vars

\* render(view, options, callback). app.render, a collaborator, calls done
\* before it returns or in a later turn of the event loop; a call in a
\* later turn is kept in renders until RunRender
CallRender ==
    \E options \in {"undefined", "object", "function"}, cb \in BOOLEAN,
       sync \in BOOLEAN, err \in BOOLEAN :
        LET hasDone == cb \/ options = "function" IN
        /\ Len(res.ends) + Len(renders) < MaxEnds
        /\ Len(res.calls) + Len(renders) < MaxCalls
        /\ IF sync
           THEN /\ res' = renderDone(render(Call(res)), req, hasDone, err)
                /\ renders' = renders
           ELSE /\ res' = render(Call(res))
                /\ renders' = Append(renders, hasDone)
        /\ Did("render", <<hasDone, sync, sync /\ err>>)
        /\ UNCHANGED <<req, sess, cbLog, written>>

\* app.render calls a done it was handed in an earlier turn
RunRender ==
    \E i \in 1..Len(renders), err \in BOOLEAN :
        /\ res' = renderDone(Call(res), req, renders[i], err)
        /\ renders' = SubSeq(renders, 1, i - 1)
                         \o SubSeq(renders, i + 1, Len(renders))
        /\ Did("done", <<renders[i], err>>)
        /\ UNCHANGED <<req, sess, cbLog, written>>

\* a handler that sets the status, renders a view and sends
NextRender ==
    \/ CallSetStatus
    \/ CallRender
    \/ RunRender
    \/ CallSend

SpecRender == InitSend /\ [][NextRender]_vars

\* C4 as stated: on one response, end is called at most once, whatever
\* calls of send, json, jsonp, sendStatus and redirect are made.
C4_EndAtMostOncePerResponse == Len(res.ends) <= 1

\* C4 amended: every call of send, json, jsonp, sendStatus or redirect
\* calls end exactly once when it returns and not at all when it throws.
C4_EndOncePerCall ==
    last.op \in OutputOps =>
        Len(res.ends) = last.before.ends
                          + (IF res.exc = "none" THEN 1 ELSE 0)

\* send() without a body, on a response that was ended before, returned
\* and called end a second time
C4_Witness ==
    /\ last.op = "send"
    /\ last.arg = UndefinedBody
    /\ last.before.sent
    /\ res.exc = "none"
    /\ last.before.ends = 1
    /\ Len(res.ends) = 2

Last(q) == q[Len(q)]

\* C6: a send, json, jsonp or sendStatus call that returns on a fresh
\* request has ended the response with status 304, whatever the status
\* was; and when it ended the response with status 204 or 304, the
\* response has no Content-Type, Content-Length or Transfer-Encoding header
\* and end got an empty body: the empty string, or no chunk for HEAD.
C6_BodylessStatuses ==
    (last.op \in {"send", "json", "jsonp", "sendStatus"} /\ res.exc = "none") =>
        LET e == Last(res.ends) IN
        /\ req.fresh => (e.status = 304 /\ res.statusCode = 304)
        /\ e.status \in {204, 304} =>
              /\ e.ctype = Absent
              /\ e.clen = Absent
              /\ e.te = Absent
              /\ res.hdr["Content-Type"] = Absent
              /\ res.hdr["Content-Length"] = Absent
              /\ res.hdr["Transfer-Encoding"] = Absent
              /\ e.chunk \in {EmptyString, NoChunk}
              /\ (req.method # "HEAD" => e.chunk = EmptyString)

\* a fresh request: send of a two-character string on a response with
\* status 404 and Transfer-Encoding set ended it with 304 and no body
C6_Witness ==
    /\ last.op = "send"
    /\ last.arg = StrBody(2, 3)
    /\ last.before.statusCode = 404
    /\ last.before.te = HStr("chunked")
    /\ req.fresh
    /\ req.method = "GET"
    /\ res.exc = "none"
    /\ Last(res.ends).status = 304
    /\ Last(res.ends).chunk = EmptyString
    /\ Last(res.ends).te = Absent

====
